---------------------------- MODULE Spec2Model ----------------------------
(***************************************************************************)
(* Model of the link parser of parser.py: class LinkParser (fetch_page,    *)
(* parse_issues, parse_pdfs, download, download_all) and the module-level  *)
(* pipeline that drives it.                                                *)
(*                                                                         *)
(* Strings are sequences of tokens: "/view/1/5" is                         *)
(* <<"/", "view", "/", "1", "/", "5">>.  The separator "/" is a token of    *)
(* its own, so str.replace and str.split act on it as they do on the       *)
(* characters.  A class attribute is the sequence of its class names, a    *)
(* text is the sequence of its words.                                      *)
(***************************************************************************)
EXTENDS Naturals, Sequences, FiniteSets

\* ------------------------------------------------------------ bounds
MaxUrlLen == 5
MaxCalls == 4
MaxRewrites == 2

\* ----------------------------------------------------------- strings

Range(s) == {s[x] : x \in DOMAIN s}

\* Python's `sub in s`
Contains(s, sub) ==
    \E x \in 0..(Len(s) - Len(sub)) : SubSeq(s, x + 1, x + Len(sub)) = sub

\* Python's s.replace(old, new): leftmost, non-overlapping occurrences
RECURSIVE Replace(_, _, _)
Replace(s, old, new) ==
    IF Len(s) < Len(old) THEN s
    ELSE IF SubSeq(s, 1, Len(old)) = old
         THEN new \o Replace(SubSeq(s, Len(old) + 1, Len(s)), old, new)
         ELSE <<Head(s)>> \o Replace(Tail(s), old, new)

\* Python's s.split('/')[-1]: what follows the last separator
RECURSIVE LastSegment(_)
LastSegment(s) ==
    IF s = <<>> THEN <<>>
    ELSE IF s[Len(s)] = "/" THEN <<>>
         ELSE LastSegment(SubSeq(s, 1, Len(s) - 1)) \o <<s[Len(s)]>>

\* os.path.join(a, b) on a POSIX system
PathJoin(a, b) ==
    IF b # <<>> /\ Head(b) = "/" THEN b
    ELSE IF a = <<>> \/ a[Len(a)] = "/" THEN a \o b
         ELSE a \o <<"/">> \o b

\* pdf_link.replace('/view/', '/download/')
Rewrite_NoSlash(u) == Replace(u, <<"/", "view">>, <<"/", "download">>)
Rewrite(u) == Replace(u, <<"/", "view", "/">>, <<"/", "download", "/">>)

\* os.path.join(download_folder, pdf_link.split('/')[-1] + '.pdf')
LocalFilename_NoSplit(folder, url) == PathJoin(folder, url \o <<".pdf">>)
LocalFilename(folder, url) == PathJoin(folder, LastSegment(url) \o <<".pdf">>)

ChunkSize == 8192

\* ------------------------------------------------ arguments of the script
IssueClass == <<"obj_issue_summary">>
PdfClass == <<"obj_galley_link", "pdf">>
DownloadFolder == <<".", "/", "data", "/", "downloads">>
PdfText == <<"PDF", "FULL", "TEXT">>

\* ------------------------------------------------------- the remote site
IssueURLs == {"I1", "I2", "I3"}

LinkA == <<"/", "view", "/", "1", "/", "5">>
LinkB == <<"/", "view", "/", "2", "/", "5">>
LinkC == <<"/", "download", "/", "3", "/", "7">>

Anchor(c, a, t) == [class |-> c, attrs |-> a, text |-> t]

A_pdfA == Anchor(PdfClass, [href |-> LinkA], PdfText)
A_epub == Anchor(PdfClass, [href |-> LinkB], <<"EPUB", "FULL", "TEXT">>)
A_nohref == Anchor(PdfClass, [id |-> <<"g1">>], PdfText)
A_class == Anchor(<<"obj_galley_link">>, [href |-> LinkC], PdfText)
A_pdfB == Anchor(PdfClass, [href |-> LinkB, id |-> <<"g2">>],
                 <<"Download", "PDF", "FULL", "TEXT", "here">>)
A_pdfC == Anchor(PdfClass, [href |-> LinkC], PdfText)

PageSet ==
    { <<>>,
      <<A_pdfA, A_epub>>,
      <<A_nohref, A_pdfB, A_class>>,
      <<A_pdfC, A_pdfA>> }

Div(c, d) == [class |-> c, descendants |-> d]

D_I1 == Div(IssueClass, << [href |-> "I1"] >>)
D_I2 == Div(<<"obj_issue_summary", "featured">>,
            << [id |-> "cover"], [href |-> "I2", id |-> "t"], [href |-> "I3"] >>)
D_I3 == Div(<<"featured">>, << [href |-> "I3"] >>)
D_I3s == Div(<<"wide", "obj_issue_summary">>, << [href |-> "I3"] >>)
D_none == Div(IssueClass, << [id |-> "empty"] >>)

ArchiveSet ==
    { <<D_I1, D_I2>>,
      <<D_I2, D_I3, D_none, D_I1, D_I3s, D_I2>>,
      <<D_none, D_I3>> }

\* size in bytes of the body served for a download URL
BodySize(url) ==
    CASE url = Rewrite(LinkA) -> 20000
      [] url = Rewrite(LinkB) -> ChunkSize
      [] url = LinkC -> 100
      [] OTHER -> 0

\* ---------------------------------------------------------------- state
VARIABLES
    archive,          \* the archive page: its div elements
    pages,            \* issue URL -> the anchors of its page
    dirExists,        \* the download directory exists
    files,            \* local path -> [src, bytes]: the files written
    issue_links,      \* LinkParser.issue_links
    pdf_links,        \* LinkParser.pdf_links
    method,           \* the method called last (running or ended)
    pc,               \* the position in the running method, "idle" if none
    status,           \* how the last call ended: "none", "returned", "raised"
    class_,           \* argument class_
    extract,          \* argument extract
    download_folder,  \* argument download_folder
    elements,         \* the elements not yet visited by the inner loop
    issue_idx,        \* the index of issue_link in issue_links
    pdf_idx,          \* the index of pdf_link in pdf_links
    pdf_link,         \* download_all's pdf_link, rewritten
    filename,         \* download_all's filename
    written,          \* the bytes of the body streamed so far
    origin,           \* history: the issue page each entry of pdf_links is from
    appended,         \* history: the links appended by the last call
    prev_links,       \* history: the list as the last call found it
    failed_ops,       \* history: the requests that failed
    downloads,        \* history: the calls of download
    sleeps,           \* history: the calls of time.sleep(1)
    calls,            \* history: the method calls made
    url_in,           \* the URL given to the rewrite
    url_out,          \* the result of the rewrites applied so far
    url_prev,         \* the result before the last rewrite
    url_n             \* the number of rewrites applied

vars == <<archive, pages, dirExists, files, issue_links, pdf_links, method, pc,
          status, class_, extract, download_folder, elements, issue_idx,
          pdf_idx, pdf_link, filename, written, origin, appended, prev_links,
          failed_ops, downloads, sleeps, calls, url_in, url_out, url_prev,
          url_n>>

site == <<archive, pages>>
disk == <<dirExists, files>>
args == <<class_, extract, download_folder>>
dl_locals == <<pdf_idx, pdf_link, filename, written>>
rewriter == <<url_in, url_out, url_prev, url_n>>

NoFiles == [p \in {} |-> 0]

\* LinkParser.__init__ and an untouched rewrite
InitParser ==
    /\ issue_links = <<>>
    /\ pdf_links = <<>>
    /\ method = "none"
    /\ pc = "idle"
    /\ status = "none"
    /\ class_ = <<>>
    /\ extract = ""
    /\ download_folder = <<>>
    /\ elements = <<>>
    /\ issue_idx = 0
    /\ pdf_idx = 0
    /\ pdf_link = <<>>
    /\ filename = <<>>
    /\ written = 0
    /\ origin = <<>>
    /\ appended = <<>>
    /\ prev_links = <<>>
    /\ failed_ops = 0
    /\ downloads = 0
    /\ sleeps = 0
    /\ calls = 0
    /\ files = NoFiles

InitRewriter ==
    /\ url_in = <<>>
    /\ url_out = <<>>
    /\ url_prev = <<>>
    /\ url_n = 0

Init ==
    /\ archive \in ArchiveSet
    /\ pages \in [IssueURLs -> PageSet]
    /\ dirExists \in BOOLEAN
    /\ InitParser
    /\ InitRewriter


\* ------------------------------------------------------- HTML selection

\* soup.find_all(tag, class_=filter): the class attribute as a whole equals
\* the filter, or the filter is one class name and the element carries it
ClassMatches(cls, filter) ==
    \/ cls = filter
    \/ Len(filter) = 1 /\ filter[1] \in Range(cls)

FindAll(elems, filter) ==
    SelectSeq(elems, LAMBDA el : ClassMatches(el.class, filter))

None == [none |-> TRUE]

\* element.find(attrs={extract: True}): the first descendant with the attribute
Find(el, attr) ==
    LET found == SelectSeq(el.descendants, LAMBDA t : attr \in DOMAIN t)
    IN IF found = <<>> THEN None ELSE Head(found)

\* `tag and extract in tag.attrs`
IssueCondition(tag, attr) == tag # None /\ attr \in DOMAIN tag

\* `extract in element.attrs and "PDF FULL TEXT" in element.text`
PdfCondition_AttrOnly(el, attr) == attr \in DOMAIN el.attrs
PdfCondition(el, attr) ==
    attr \in DOMAIN el.attrs /\ Contains(el.text, PdfText)

\* ------------------------------------------------------------ fetch_page

\* requests.get answers for the pages of the site only
Reachable(url) == url \in IssueURLs

\* ---------------------------------------------------------- parse_issues

Begin_parse_issues(c, e) ==
    /\ pc = "idle"
    /\ method' = "parse_issues"
    /\ pc' = "pi_fetch"
    /\ status' = "none"
    /\ class_' = c
    /\ extract' = e
    /\ prev_links' = issue_links
    /\ appended' = <<>>
    /\ calls' = calls + 1
    /\ UNCHANGED <<site, disk, issue_links, pdf_links, download_folder,
                   elements, issue_idx, dl_locals, origin, failed_ops,
                   downloads, sleeps, rewriter>>

\* `self.issue_links = []`
PI_Reset_Merge == issue_links' = issue_links
PI_Reset == issue_links' = <<>>

\* the archive page is fetched and parsed, the list is emptied
PI_FetchOk ==
    /\ pc = "pi_fetch"
    /\ elements' = FindAll(archive, class_)
    /\ PI_Reset
    /\ pc' = "pi_loop"
    /\ UNCHANGED <<site, disk, pdf_links, method, status, args, issue_idx,
                   dl_locals, origin, appended, prev_links, failed_ops,
                   downloads, sleeps, calls, rewriter>>

\* fetch_page raises: nothing catches it
PI_FetchFail ==
    /\ pc = "pi_fetch"
    /\ failed_ops' = failed_ops + 1
    /\ pc' = "idle"
    /\ status' = "raised"
    /\ UNCHANGED <<site, disk, issue_links, pdf_links, method, args, elements,
                   issue_idx, dl_locals, origin, appended, prev_links,
                   downloads, sleeps, calls, rewriter>>

\* one turn of `for element in elements`
PI_Element ==
    /\ pc = "pi_loop"
    /\ elements # <<>>
    /\ LET tag == Find(Head(elements), extract)
       IN IF IssueCondition(tag, extract)
          THEN /\ issue_links' = Append(issue_links, tag[extract])
               /\ appended' = Append(appended, tag[extract])
          ELSE UNCHANGED <<issue_links, appended>>
    /\ elements' = Tail(elements)
    /\ UNCHANGED <<site, disk, pdf_links, method, pc, status, args, issue_idx,
                   dl_locals, origin, prev_links, failed_ops, downloads,
                   sleeps, calls, rewriter>>

PI_Return ==
    /\ pc = "pi_loop"
    /\ elements = <<>>
    /\ pc' = "idle"
    /\ status' = "returned"
    /\ UNCHANGED <<site, disk, issue_links, pdf_links, method, args, elements,
                   issue_idx, dl_locals, origin, appended, prev_links,
                   failed_ops, downloads, sleeps, calls, rewriter>>

\* ------------------------------------------------------------ parse_pdfs

\* `self.pdf_links = []`, then the loop over self.issue_links starts
Begin_parse_pdfs(c, e) ==
    /\ pc = "idle"
    /\ method' = "parse_pdfs"
    /\ pc' = "pp_loop"
    /\ status' = "none"
    /\ class_' = c
    /\ extract' = e
    /\ prev_links' = pdf_links
    /\ appended' = <<>>
    /\ pdf_links' = <<>>
    /\ origin' = <<>>
    /\ issue_idx' = 1
    /\ calls' = calls + 1
    /\ UNCHANGED <<site, disk, issue_links, download_folder, elements,
                   dl_locals, failed_ops, downloads, sleeps, rewriter>>

\* the issue page is fetched and parsed
PP_FetchOk ==
    /\ pc = "pp_loop"
    /\ issue_idx <= Len(issue_links)
    /\ Reachable(issue_links[issue_idx])
    /\ elements' = FindAll(pages[issue_links[issue_idx]], class_)
    /\ pc' = "pp_elements"
    /\ UNCHANGED <<site, disk, issue_links, pdf_links, method, status, args,
                   issue_idx, dl_locals, origin, appended, prev_links,
                   failed_ops, downloads, sleeps, calls, rewriter>>

\* what parse_pdfs does when fetch_page raises: nothing catches it
PP_OnFetchError_Skip ==
    /\ pc' = "pp_loop"
    /\ issue_idx' = issue_idx + 1
    /\ UNCHANGED status
PP_OnFetchError ==
    /\ pc' = "idle"
    /\ status' = "raised"
    /\ UNCHANGED issue_idx

PP_FetchFail ==
    /\ pc = "pp_loop"
    /\ issue_idx <= Len(issue_links)
    /\ failed_ops' = failed_ops + 1
    /\ PP_OnFetchError
    /\ UNCHANGED <<site, disk, issue_links, pdf_links, method, args, elements,
                   dl_locals, origin, appended, prev_links, downloads, sleeps,
                   calls, rewriter>>

\* one turn of `for element in elements`
PP_Element ==
    /\ pc = "pp_elements"
    /\ elements # <<>>
    /\ LET el == Head(elements)
       IN IF PdfCondition(el, extract)
          THEN /\ pdf_links' = Append(pdf_links, el.attrs[extract])
               /\ appended' = Append(appended, el.attrs[extract])
               /\ origin' = Append(origin, [idx |-> issue_idx,
                                          url |-> issue_links[issue_idx]])
          ELSE UNCHANGED <<pdf_links, appended, origin>>
    /\ elements' = Tail(elements)
    /\ UNCHANGED <<site, disk, issue_links, method, pc, status, args,
                   issue_idx, dl_locals, prev_links, failed_ops, downloads,
                   sleeps, calls, rewriter>>

\* the inner loop ends: the next issue_link
PP_NextIssue ==
    /\ pc = "pp_elements"
    /\ elements = <<>>
    /\ issue_idx' = issue_idx + 1
    /\ pc' = "pp_loop"
    /\ UNCHANGED <<site, disk, issue_links, pdf_links, method, status, args,
                   elements, dl_locals, origin, appended, prev_links,
                   failed_ops, downloads, sleeps, calls, rewriter>>

PP_Return ==
    /\ pc = "pp_loop"
    /\ issue_idx > Len(issue_links)
    /\ pc' = "idle"
    /\ status' = "returned"
    /\ UNCHANGED <<site, disk, issue_links, pdf_links, method, args, elements,
                   issue_idx, dl_locals, origin, appended, prev_links,
                   failed_ops, downloads, sleeps, calls, rewriter>>


\* -------------------------------------------------- download_all, download

Begin_download_all(folder) ==
    /\ pc = "idle"
    /\ method' = "download_all"
    /\ pc' = "da_mkdir"
    /\ status' = "none"
    /\ download_folder' = folder
    /\ pdf_idx' = 0
    /\ pdf_link' = <<>>
    /\ filename' = <<>>
    /\ written' = 0
    /\ calls' = calls + 1
    /\ UNCHANGED <<site, disk, issue_links, pdf_links, class_, extract,
                   elements, issue_idx, origin, appended, prev_links,
                   failed_ops, downloads, sleeps, rewriter>>

\* `if not os.path.exists(download_folder): os.makedirs(download_folder)`
DA_Mkdir ==
    /\ pc = "da_mkdir"
    /\ dirExists' = TRUE
    /\ pdf_idx' = 1
    /\ pc' = "da_loop"
    /\ UNCHANGED <<site, files, issue_links, pdf_links, method, status, args,
                   elements, issue_idx, pdf_link, filename, written, origin,
                   appended, prev_links, failed_ops, downloads, sleeps, calls,
                   rewriter>>

\* one turn of `for pdf_link in self.pdf_links`, up to the call of download
DA_Item ==
    /\ pc = "da_loop"
    /\ pdf_idx <= Len(pdf_links)
    /\ pdf_link' = Rewrite(pdf_links[pdf_idx])
    /\ filename' = LocalFilename(download_folder, pdf_link')
    /\ written' = 0
    /\ downloads' = downloads + 1
    /\ pc' = "dl_request"
    /\ UNCHANGED <<site, disk, issue_links, pdf_links, method, status, args,
                   elements, issue_idx, pdf_idx, origin, appended, prev_links,
                   failed_ops, sleeps, calls, rewriter>>

\* what download_all does when download raises: nothing catches it
DL_OnError_Continue ==
    /\ pc' = "da_loop"
    /\ pdf_idx' = pdf_idx + 1
    /\ UNCHANGED status
DL_OnError ==
    /\ pc' = "idle"
    /\ status' = "raised"
    /\ UNCHANGED pdf_idx

\* requests.get or r.raise_for_status() raises: the file is not opened
DL_RequestFail ==
    /\ pc = "dl_request"
    /\ failed_ops' = failed_ops + 1
    /\ DL_OnError
    /\ UNCHANGED <<site, disk, issue_links, pdf_links, method, args, elements,
                   issue_idx, pdf_link, filename, written, origin, appended,
                   prev_links, downloads, sleeps, calls, rewriter>>

\* the response is good: open(local_filename, 'wb') creates or empties the file
DL_Open ==
    /\ pc = "dl_request"
    /\ IF dirExists
       THEN /\ files' = [p \in DOMAIN files \cup {filename} |->
                            IF p = filename
                            THEN [src |-> pdf_link, bytes |-> 0]
                            ELSE files[p]]
            /\ pc' = "dl_stream"
            /\ UNCHANGED <<status, pdf_idx>>
       ELSE /\ DL_OnError
            /\ UNCHANGED files
    /\ UNCHANGED <<site, dirExists, issue_links, pdf_links, method, args,
                   elements, issue_idx, pdf_link, filename, written, origin,
                   appended, prev_links, failed_ops, downloads, sleeps, calls,
                   rewriter>>

\* one turn of `for chunk in r.iter_content(chunk_size=8192): f.write(chunk)`
DL_Chunk ==
    /\ pc = "dl_stream"
    /\ written < BodySize(pdf_link)
    /\ LET left == BodySize(pdf_link) - written
           n == IF left < ChunkSize THEN left ELSE ChunkSize
       IN /\ written' = written + n
          /\ files' = [files EXCEPT ![filename].bytes = @ + n]
    /\ UNCHANGED <<site, dirExists, issue_links, pdf_links, method, pc, status,
                   args, elements, issue_idx, pdf_idx, pdf_link, filename,
                   origin, appended, prev_links, failed_ops, downloads, sleeps,
                   calls, rewriter>>

\* the transport fails while the body is streamed: the `with` blocks close
\* the file and the response, the exception goes on
DL_StreamFail ==
    /\ pc = "dl_stream"
    /\ written < BodySize(pdf_link)
    /\ failed_ops' = failed_ops + 1
    /\ DL_OnError
    /\ UNCHANGED <<site, disk, issue_links, pdf_links, method, args, elements,
                   issue_idx, pdf_link, filename, written, origin, appended,
                   prev_links, downloads, sleeps, calls, rewriter>>

\* the body is written whole: download returns
DL_Done ==
    /\ pc = "dl_stream"
    /\ written = BodySize(pdf_link)
    /\ pc' = "da_sleep"
    /\ UNCHANGED <<site, disk, issue_links, pdf_links, method, status, args,
                   elements, issue_idx, dl_locals, origin, appended,
                   prev_links, failed_ops, downloads, sleeps, calls, rewriter>>

\* `time.sleep(1)`, the last statement of the loop body
DA_Sleep ==
    /\ pc = "da_sleep"
    /\ sleeps' = sleeps + 1
    /\ pdf_idx' = pdf_idx + 1
    /\ pc' = "da_loop"
    /\ UNCHANGED <<site, disk, issue_links, pdf_links, method, status, args,
                   elements, issue_idx, pdf_link, filename, written, origin,
                   appended, prev_links, failed_ops, downloads, calls,
                   rewriter>>

DA_Return ==
    /\ pc = "da_loop"
    /\ pdf_idx > Len(pdf_links)
    /\ pc' = "idle"
    /\ status' = "returned"
    /\ UNCHANGED <<site, disk, issue_links, pdf_links, method, args, elements,
                   issue_idx, dl_locals, origin, appended, prev_links,
                   failed_ops, downloads, sleeps, calls, rewriter>>

\* the steps of the three methods
Steps ==
    \/ PI_FetchOk \/ PI_FetchFail \/ PI_Element \/ PI_Return
    \/ PP_FetchOk \/ PP_FetchFail \/ PP_Element \/ PP_NextIssue \/ PP_Return
    \/ DA_Mkdir \/ DA_Item \/ DL_RequestFail \/ DL_Open \/ DL_Chunk
    \/ DL_StreamFail \/ DL_Done \/ DA_Sleep \/ DA_Return

\* ------------------------------------------- the module-level pipeline

\* parser.parse_issues(class_='obj_issue_summary', extract='href')
Script_parse_issues ==
    /\ method = "none"
    /\ Begin_parse_issues(IssueClass, "href")

\* parser.parse_pdfs(class_='obj_galley_link pdf', extract='href')
Script_parse_pdfs ==
    /\ method = "parse_issues"
    /\ status = "returned"
    /\ Begin_parse_pdfs(PdfClass, "href")

\* parser.download_all(download_folder='./data/downloads')
Script_download_all ==
    /\ method = "parse_pdfs"
    /\ status = "returned"
    /\ Begin_download_all(DownloadFolder)

Next ==
    \/ Script_parse_issues
    \/ Script_parse_pdfs
    \/ Script_download_all
    \/ Steps

Spec == Init /\ [][Next]_vars

\* ------------------------ a LinkParser under a caller that catches errors

IssueClassArgs == {IssueClass, <<"featured">>}
ExtractArgs == {"href", "id"}

API_parse_issues ==
    /\ calls < MaxCalls
    /\ \E c \in IssueClassArgs, e \in ExtractArgs : Begin_parse_issues(c, e)

API_parse_pdfs ==
    /\ calls < MaxCalls
    /\ \E e \in ExtractArgs : Begin_parse_pdfs(PdfClass, e)

API_download_all ==
    /\ calls < MaxCalls
    /\ Begin_download_all(DownloadFolder)

NextAPI ==
    \/ API_parse_issues
    \/ API_parse_pdfs
    \/ API_download_all
    \/ Steps

\* the site as the caller finds it: one page for each issue
InitAPI ==
    /\ archive \in ArchiveSet
    /\ pages \in { [u \in IssueURLs |-> <<A_pdfA, A_epub>>],
                   [u \in IssueURLs |->
                       IF u = "I1" THEN <<A_nohref, A_pdfB, A_class>>
                       ELSE IF u = "I2" THEN <<A_pdfC, A_pdfA>> ELSE <<>>] }
    /\ dirExists = FALSE
    /\ InitParser
    /\ InitRewriter

SpecAPI == InitAPI /\ [][NextAPI]_vars

\* ------------------------------------------------ the rewrite on its own

UrlTokens == {"/", "view", "download", "1"}
Urls == UNION {[1..n -> UrlTokens] : n \in 0..MaxUrlLen}

InitRewrite ==
    /\ archive = <<>>
    /\ pages = [u \in IssueURLs |-> <<>>]
    /\ dirExists = FALSE
    /\ InitParser
    /\ url_in \in Urls
    /\ url_out = url_in
    /\ url_prev = url_in
    /\ url_n = 0

ApplyRewrite ==
    /\ url_n < MaxRewrites
    /\ url_prev' = url_out
    /\ url_out' = Rewrite(url_out)
    /\ url_n' = url_n + 1
    /\ UNCHANGED <<site, disk, issue_links, pdf_links, method, pc, status,
                   args, elements, issue_idx, dl_locals, origin, appended,
                   prev_links, failed_ops, downloads, sleeps, calls, url_in>>

NextRewrite == ApplyRewrite

SpecRewrite == InitRewrite /\ [][NextRewrite]_vars


\* ---------------------------------------------------------------- stages

\* the stage of the pipeline run
Stage ==
    IF status = "raised" THEN "Failed"
    ELSE CASE method = "none" -> "Init"
           [] method = "parse_issues" ->
                  IF pc = "idle" THEN "IssuesDiscovered" ELSE "Init"
           [] method = "parse_pdfs" ->
                  IF pc = "idle" THEN "PdfsDiscovered" ELSE "IssuesDiscovered"
           [] method = "download_all" ->
                  IF pc = "idle" THEN "Done" ELSE "Downloading"

StageOrder ==
    { <<"Init", "IssuesDiscovered">>,
      <<"IssuesDiscovered", "PdfsDiscovered">>,
      <<"PdfsDiscovered", "Downloading">>,
      <<"Downloading", "Done">> }

Ended == pc = "idle" /\ status # "none"

\* ------------------------------------------------------------------- C1

\* C1: when the fetch of an issue page fails during parse_pdfs, the error
\* leaves parse_pdfs, pdf_links holds no link of the failing page or of a
\* page after it, and the run calls download never and writes no file.
C1_FetchFailureAborts ==
    (method = "parse_pdfs" /\ failed_ops > 0) =>
        /\ status = "raised"
        /\ pc = "idle"
        /\ \A j \in DOMAIN origin : origin[j].idx < issue_idx
        /\ Len(origin) = Len(pdf_links)
        /\ downloads = 0
        /\ files = NoFiles

C1_Witness ==
    /\ method = "parse_pdfs"
    /\ status = "raised"
    /\ issue_idx = 2
    /\ Len(issue_links) > 2
    /\ pdf_links # <<>>
    /\ pages[issue_links[3]] # <<>>

\* ------------------------------------------------------------------- C2

\* C2: after a successful download_all over N >= 1 links the pause was made
\* N - 1 times (none follows the last download).
C2_PauseBetweenOnly ==
    (method = "download_all" /\ status = "returned" /\ Len(pdf_links) >= 1) =>
        sleeps = Len(pdf_links) - 1

\* ------------------------------------------------------------------- C3

\* C3: after a failed download the file at the local path is absent or does
\* not hold a proper prefix of the body.
C3_NoPartialFile ==
    (method = "download_all" /\ status = "raised") =>
        \/ filename \notin DOMAIN files
        \/ files[filename].src # pdf_link
        \/ files[filename].bytes = BodySize(pdf_link)

\* ------------------------------------------------------------------- C4

StageStep ==
    /\ failed_ops = 0
    /\ failed_ops' > 0 => Stage' = "Failed"
    /\ \/ Stage' = Stage
       \/ Stage' = "Failed"
       \/ <<Stage, Stage'>> \in StageOrder

\* C4: the run takes the stages in the order Init, IssuesDiscovered,
\* PdfsDiscovered, Downloading, Done; a failed request of any stage moves
\* it to Failed, and no step (no fetch, no download, no retry) follows a
\* failure, so Done is not reached after one.
C4_StageOrder == [][StageStep]_vars

C4_Witness ==
    /\ Stage = "Failed"
    /\ method = "download_all"
    /\ pdf_idx = 2
    /\ Len(pdf_links) > 2
    /\ files # NoFiles

\* ------------------------------------------------------------------- C5

\* C5 as stated: after any call of parse_issues (parse_pdfs) the list holds
\* the links appended during that call and nothing else.
C5_EveryCallReplaces ==
    Ended =>
        /\ method = "parse_issues" => issue_links = appended
        /\ method = "parse_pdfs" => pdf_links = appended

IsPrefix(s, t) == Len(s) <= Len(t) /\ SubSeq(t, 1, Len(s)) = s

C5_Lists ==
    /\ (method = "parse_issues" /\ Ended /\ status = "returned")
           => issue_links = appended
    /\ (method = "parse_issues" /\ status = "raised")
           => issue_links = prev_links
    /\ method = "parse_pdfs" => pdf_links = appended

C5_Appends ==
    /\ (method = "parse_issues" /\ pc = "pi_loop")
           => IsPrefix(issue_links, issue_links')
    /\ (method = "parse_pdfs" /\ method' = "parse_pdfs" /\ pc # "idle")
           => IsPrefix(pdf_links, pdf_links')

\* C5, amended: parse_pdfs, and a parse_issues whose fetch succeeds, leave
\* in the list the links appended during the call and nothing else; a
\* parse_issues whose fetch fails leaves issue_links as it found it; once
\* emptied, the list only grows by appends until the call ends.
C5_ReplacesUnlessFetchFails == [](C5_Lists) /\ [][C5_Appends]_vars

C5_Witness ==
    /\ method = "parse_issues"
    /\ Ended
    /\ status = "returned"
    /\ prev_links # <<>>
    /\ issue_links # <<>>
    /\ issue_links # prev_links

\* ------------------------------------------------------------------- C6

Qualifies(a) ==
    /\ ClassMatches(a.class, PdfClass)
    /\ "href" \in DOMAIN a.attrs
    /\ \E x \in DOMAIN a.text :
           /\ x + 2 <= Len(a.text)
           /\ a.text[x] = "PDF" /\ a.text[x + 1] = "FULL" /\ a.text[x + 2] = "TEXT"

Hrefs(as) == [x \in DOMAIN as |-> as[x].attrs.href]

RECURSIVE ExpectedPdfs(_)
ExpectedPdfs(links) ==
    IF links = <<>> THEN <<>>
    ELSE Hrefs(SelectSeq(pages[Head(links)], Qualifies))
             \o ExpectedPdfs(Tail(links))

\* C6: a successful parse_pdfs leaves in pdf_links the href values, in the
\* order of issue_links and then of the page, of the anchors that match the
\* class filter, carry href and have "PDF FULL TEXT" in their text.
C6_ExactlyQualifying ==
    (method = "parse_pdfs" /\ Ended /\ status = "returned") =>
        pdf_links = ExpectedPdfs(issue_links)

C6_Witness ==
    /\ method = "parse_pdfs"
    /\ Ended
    /\ status = "returned"
    /\ \E u \in Range(issue_links) : pages[u] = <<A_pdfA, A_epub>>
    /\ \E u \in Range(issue_links) : pages[u] = <<A_nohref, A_pdfB, A_class>>
    /\ \E u \in Range(issue_links) : pages[u] = <<>>
    /\ \E j, k \in DOMAIN pdf_links : j # k /\ pdf_links[j] = pdf_links[k]

\* ------------------------------------------------------------------- C7

\* C7: after a successful download_all over N links there are N files, one
\* for each link, each holding the body of its link.
C7_OneFilePerLink ==
    (method = "download_all" /\ status = "returned") =>
        /\ Cardinality(DOMAIN files) = Len(pdf_links)
        /\ \A k \in DOMAIN pdf_links :
               LET u == Rewrite(pdf_links[k])
                   f == LocalFilename(download_folder, u)
               IN /\ f \in DOMAIN files
                  /\ files[f] = [src |-> u, bytes |-> BodySize(u)]

\* ------------------------------------------------------------------- C8

DirectChild(path, folder) ==
    /\ Len(path) > Len(folder) + 1
    /\ SubSeq(path, 1, Len(folder)) = folder
    /\ path[Len(folder) + 1] = "/"
    /\ \A x \in (Len(folder) + 2)..Len(path) : path[x] # "/"

\* C8: every path download_all hands to download is a direct child of the
\* download directory, and the directory exists when download is called
\* and when a file is written.
C8_InsideExistingDir ==
    /\ pc \in {"dl_request", "dl_stream"} =>
           dirExists /\ DirectChild(filename, download_folder)
    /\ files # NoFiles => dirExists
    /\ \A p \in DOMAIN files : DirectChild(p, DownloadFolder)

C8_Witness ==
    /\ pc = "dl_stream"
    /\ downloads = 2
    /\ written > 0
    /\ Cardinality(DOMAIN files) = 2

\* ------------------------------------------------------------------- C9

ViewPattern == <<"/", "view", "/">>
ExampleUrl == <<"https:", "/", "/", "site", "/", "view", "/", "123", "/", "456">>
ExampleOut == <<"https:", "/", "/", "site", "/", "download", "/", "123", "/", "456">>

\* C9 as stated: a URL without "/view/" is left unchanged, and a second
\* rewrite changes nothing, whatever the URL.
C9_Idempotent ==
    /\ (url_n >= 1 /\ ~Contains(url_in, ViewPattern)) => url_out = url_in
    /\ url_n >= 2 => url_out = url_prev

\* C9, amended: a URL without "/view/" is left unchanged, ".../view/123/456"
\* becomes ".../download/123/456", and a second rewrite changes nothing for
\* every URL without "/view/view/".
C9_IdempotentUnlessOverlap ==
    /\ (url_n >= 1 /\ ~Contains(url_in, ViewPattern)) => url_out = url_in
    /\ url_n >= 1 => Rewrite(ExampleUrl) = ExampleOut
    /\ (url_n >= 2 /\ ~Contains(url_in, <<"/", "view", "/", "view", "/">>))
           => url_out = url_prev

C9_Witness ==
    /\ url_n = 2
    /\ Contains(url_in, ViewPattern)
    /\ ~Contains(url_in, <<"/", "view", "/", "view", "/">>)
    /\ url_out # url_in
    /\ url_out = url_prev

\* ------------------------------------------------------------------ C10

\* C10: between calls, every entry of pdf_links is from a page whose URL is
\* in issue_links.
C10_PdfsOfCurrentIssues ==
    pc = "idle" =>
        \A j \in DOMAIN origin : origin[j].url \in Range(issue_links)

=============================================================================
